---- MODULE Spec2Model ----
(***************************************************************************)
(* Valuation dashboard: the batch collector (scripts/collect_data.py) that *)
(* merges one snapshot per day into data/valuation_history.json, and the   *)
(* time-gated session cache of the Streamlit page (app.py).                *)
(*                                                                         *)
(* Python values are modelled as follows.                                  *)
(*   str       a sequence of character codes, so that < and >= on strings  *)
(*             are the lexicographic comparison Python performs            *)
(*   dict      a function whose DOMAIN is the set of keys present          *)
(*   list      a sequence                                                  *)
(*   datetime  seconds since 2024-01-01T00:00:00 local time                *)
(***************************************************************************)
EXTENDS Integers, Sequences, FiniteSets, TLC

VARIABLES
    now,            \* the wall clock, datetime.now()
    file,           \* the durable document data/valuation_history.json
    last,           \* what the latest run of main() did (inputs, exit code, calls made)
    cached_df,      \* st.session_state["cached_df"]
    last_fetch_at,  \* st.session_state["last_fetch_at"]
    memo,           \* the st.cache_data store of _fetch_api_data_once
    source,         \* the data the remote API serves at present
    call,           \* what the fetch_api_data() call of the step just taken did
    gate,           \* the days of the latest boundary-crossing rebuilds (history)
    summary         \* the latest get_data_summary(data): its argument and result

vars == <<now, file, last, cached_df, last_fetch_at, memo, source, call, gate, summary>>

-----------------------------------------------------------------------------
(* Bounds of the model.                                                    *)

StartDay == 100     \* the day the model starts on, counted from 2024-01-01
MaxDays == 1        \* days the batch clock may advance
MaxAppDays == 1     \* days the page clock may advance
MaxVersion == 2     \* distinct payloads the remote API serves over time

-----------------------------------------------------------------------------
(* Program constants.                                                      *)

DAYS_TO_KEEP == 90          \* cleanup_old_data(all_data, days_to_keep=90)
REFRESH_HOUR == 20          \* time(20, 0)
FETCH_TIMEOUT == 10         \* requests.get(url, timeout=10, ...)
SecondsPerDay == 24 * 60 * 60

-----------------------------------------------------------------------------
(* dict                                                                    *)

Has(d, k) == k \in DOMAIN d
Get(d, k, default) == IF k \in DOMAIN d THEN d[k] ELSE default
Put(d, k, v) == [x \in (DOMAIN d) \cup {k} |-> IF x = k THEN v ELSE d[x]]
Pop(d, k) == [x \in (DOMAIN d) \ {k} |-> d[x]]

(* str: lexicographic order on sequences of character codes                *)
RECURSIVE StrLessFrom(_, _, _)
StrLessFrom(a, b, i) ==
    IF i > Len(b) THEN FALSE
    ELSE IF i > Len(a) THEN TRUE
    ELSE IF a[i] # b[i] THEN a[i] < b[i]
    ELSE StrLessFrom(a, b, i + 1)

StrLess(a, b) == StrLessFrom(a, b, 1)

StrGeq(a, b) == ~StrLess(a, b)

-----------------------------------------------------------------------------
(* datetime: date(), strftime("%Y-%m-%d")                                  *)

DateOf(t) == t \div SecondsPerDay

IsLeap(y) == (y % 4 = 0 /\ y % 100 # 0) \/ y % 400 = 0

DaysInMonth(y, m) ==
    IF m = 2 THEN (IF IsLeap(y) THEN 29 ELSE 28)
    ELSE IF m \in {4, 6, 9, 11} THEN 30 ELSE 31

(* the calendar date of day n counted from the first of month m of year y  *)
RECURSIVE YMD(_, _, _)
YMD(y, m, n) ==
    IF n < DaysInMonth(y, m) THEN <<y, m, n + 1>>
    ELSE IF m = 12 THEN YMD(y + 1, 1, n - DaysInMonth(y, m))
    ELSE YMD(y, m + 1, n - DaysInMonth(y, m))

Digit(n) == 48 + n
Pad2(n) == <<Digit(n \div 10), Digit(n % 10)>>
Pad4(n) == <<Digit(n \div 1000), Digit((n \div 100) % 10),
             Digit((n \div 10) % 10), Digit(n % 10)>>

(* date.strftime("%Y-%m-%d") of day ordinal d: zero-padded, "-" is code 45 *)
FormatDate(d) ==
    LET c == YMD(2024, 1, d)
    IN  Pad4(c[1]) \o <<45>> \o Pad2(c[2]) \o <<45>> \o Pad2(c[3])

(* the days the model's clocks and documents can name, formatted once       *)
Days == 0..(StartDay + MaxDays + MaxAppDays + 1)
DateTable == [d \in Days |-> FormatDate(d)]

strftime(d) == DateTable[d]

-----------------------------------------------------------------------------
(* Inputs of the batch collector: what the remote API answers.             *)

ItemA1 == [index_code |-> "SH000300", name |-> <<97>>, pe |-> 1]
ItemB1 == [index_code |-> "SZ399006", name |-> <<98>>, pe |-> 1]
ItemA2 == [index_code |-> "SH000300", name |-> <<97>>, pe |-> 2]
ItemB2 == [index_code |-> "SZ399006", name |-> <<98>>, pe |-> 2]
ItemN1 == [name |-> <<98>>, pe |-> 1]                    \* no index_code
ItemN2 == [name |-> <<99>>, pe |-> 2]                    \* no index_code
ItemY == [index_code |-> "SH000016", pe |-> 1, yeild |-> 3, bond_yeild |-> 4]

(* an item that is not a JSON object (a number, a string, null, an array);  *)
(* it is written as a record of the one key "scalar", which no object has   *)
ItemS == [scalar |-> 7]

ItemLists ==
    { <<>>,
      <<ItemA1, ItemB1>>,
      <<ItemB2, ItemA2>>,
      <<ItemA1, ItemA2>>,
      <<ItemN1, ItemY, ItemN2>>,
      <<ItemA1, ItemS, ItemB1>> }

(* the outcome of requests.get + raise_for_status + response.json()        *)
ApiResponses ==
    { [status |-> "transport_error", body |-> <<>>],
      [status |-> "http_error", body |-> <<>>],
      [status |-> "ok", body |-> [code |-> 0]],
      [status |-> "ok", body |-> [data |-> [total |-> 0]]] }
    \cup { [status |-> "ok", body |-> [data |-> [items |-> l]]] : l \in ItemLists }

(* what happens to the file system calls of save_data                      *)
WriteOutcomes == {"ok", "open_fails", "dump_interrupted"}

-----------------------------------------------------------------------------
(* scripts/collect_data.py                                                 *)

Absent == [state |-> "absent"]
Corrupt == [state |-> "unparsable"]
Json(data) == [state |-> "json", data |-> data]

(* a document that holds these records but whose open() or json.load()      *)
(* raises: an I/O error, a byte order mark or a damaged byte in the text    *)
Unreadable(data) == [state |-> "unreadable", data |-> data]

fetch_api_data(resp) ==
    IF resp.status # "ok"
    THEN [items |-> <<>>, error_msg |-> "Error fetching data from API"]
    ELSE IF ~Has(resp.body, "data") \/ ~Has(resp.body.data, "items")
    THEN [items |-> <<>>, error_msg |-> "Invalid API response structure"]
    ELSE [items |-> resp.body.data.items, error_msg |-> "None"]

load_existing_data(doc) ==
    IF doc.state = "json" THEN doc.data ELSE <<>>

(* variant: the check looks for a key the records do not carry             *)
data_exists_wrong_key(data, date) ==
    \E i \in 1..Len(data) : Has(data[i], "date") /\ data[i].date = date

data_exists_for_date(data, date) ==
    \E i \in 1..Len(data) : Has(data[i], "fetch_date") /\ data[i].fetch_date = date

IsDict(item) == ~Has(item, "scalar")

(* item.copy() or record['fetch_date'] = ... raises on an item that is not  *)
(* a dict (AttributeError, or TypeError for a list); nothing catches it     *)
prepare_raises(items) == \E i \in 1..Len(items) : ~IsDict(items[i])

prepare_record(item, fetch_date, fetch_timestamp) ==
    LET r0 == Put(Put(item, "fetch_date", fetch_date), "fetch_timestamp", fetch_timestamp)
        r1 == IF Has(r0, "yeild")
              THEN Put(Pop(r0, "yeild"), "dividend_yield", r0["yeild"]) ELSE r0
        r2 == IF Has(r1, "bond_yeild")
              THEN Put(Pop(r1, "bond_yeild"), "bond_yield", r1["bond_yeild"]) ELSE r1
    IN  r2

prepare_records(items, fetch_date, clock) ==
    [i \in 1..Len(items) |-> prepare_record(items[i], fetch_date, clock)]

SortKey(x) == <<Get(x, "fetch_date", <<>>), Get(x, "name", <<>>)>>

KeyLess(k1, k2) ==
    StrLess(k1[1], k2[1]) \/ (k1[1] = k2[1] /\ StrLess(k1[2], k2[2]))

(* list.sort(key=..., reverse=True): descending, equal keys keep their order *)
InsertReverse(res, x) ==
    LET smaller == {i \in 1..Len(res) : KeyLess(SortKey(res[i]), SortKey(x))}
        p == IF smaller = {} THEN Len(res) + 1
             ELSE CHOOSE i \in smaller : \A j \in smaller : i <= j
    IN  SubSeq(res, 1, p - 1) \o <<x>> \o SubSeq(res, p, Len(res))

RECURSIVE SortReverseFrom(_, _)
SortReverseFrom(res, data) ==
    IF data = <<>> THEN res
    ELSE SortReverseFrom(InsertReverse(res, Head(data)), Tail(data))

(* variant: sorted ascending and then reversed, which turns equal keys round *)
InsertBeforeEqual(res, x) ==
    LET notgreater == {i \in 1..Len(res) : ~KeyLess(SortKey(x), SortKey(res[i]))}
        p == IF notgreater = {} THEN Len(res) + 1
             ELSE CHOOSE i \in notgreater : \A j \in notgreater : i <= j
    IN  SubSeq(res, 1, p - 1) \o <<x>> \o SubSeq(res, p, Len(res))

RECURSIVE SortUnstableFrom(_, _)
SortUnstableFrom(res, data) ==
    IF data = <<>> THEN res
    ELSE SortUnstableFrom(InsertBeforeEqual(res, Head(data)), Tail(data))

sort_reversed_afterwards(data) == SortUnstableFrom(<<>>, data)

sort_reverse(data) == SortReverseFrom(<<>>, data)

save_data(doc, data, wr) ==
    IF wr = "open_fails" THEN [ok |-> FALSE, file |-> doc]
    ELSE IF wr = "dump_interrupted" THEN [ok |-> FALSE, file |-> Corrupt]
    ELSE [ok |-> TRUE, file |-> Json(sort_reverse(data))]

(* variant: the cutoff is one day too early                                 *)
cleanup_one_day_more(data, clock, days_to_keep) ==
    LET cutoff_date == strftime(DateOf(clock - (days_to_keep + 1) * SecondsPerDay))
        keep(item) == StrGeq(Get(item, "fetch_date", <<>>), cutoff_date)
    IN  SelectSeq(data, keep)

cleanup_old_data(data, clock, days_to_keep) ==
    LET cutoff_date == strftime(DateOf(clock - days_to_keep * SecondsPerDay))
        keep(item) == StrGeq(Get(item, "fetch_date", <<>>), cutoff_date)
    IN  SelectSeq(data, keep)

(* variant: the records of today are kept, the new ones appended to them    *)
remove_nothing(existing_data, today) == existing_data

remove_today(existing_data, today) ==
    LET other(item) == ~(Has(item, "fetch_date") /\ item.fetch_date = today)
    IN  SelectSeq(existing_data, other)

NotRequested == [status |-> "not_requested", body |-> <<>>]

NoSummary == [given |-> <<>>, raised |-> FALSE, value |-> <<>>]

(* get_data_summary(data); given is the argument, raised the TypeError of   *)
(* min/max over a set that holds None (a record without fetch_date) and a   *)
(* str.  file_size_mb, which depends on the bytes of the file only, is left *)
(* out.  A value v that is present is <<v>>, None is <<>>.                   *)
get_data_summary(data) ==
    LET dates == {IF Has(data[i], "fetch_date") THEN <<data[i].fetch_date>> ELSE <<>> :
                     i \in 1..Len(data)}
        indices == {Get(data[i], "index_code", "None") : i \in 1..Len(data)}
        min == CHOOSE d \in dates : \A e \in dates : ~StrLess(e[1], d[1])
        max == CHOOSE d \in dates : \A e \in dates : ~StrLess(d[1], e[1])
    IN  IF data = <<>>
        THEN [given |-> <<data>>, raised |-> FALSE, value |-> [total_records |-> 0]]
        ELSE IF <<>> \in dates /\ dates # {<<>>}
        THEN [given |-> <<data>>, raised |-> TRUE, value |-> <<>>]
        ELSE [given |-> <<data>>, raised |-> FALSE,
              value |-> [total_records |-> Len(data),
                         total_days |-> Cardinality(dates),
                         total_indices |-> Cardinality(indices),
                         earliest_date |-> IF dates = {<<>>} THEN <<>> ELSE min,
                         latest_date |-> IF dates = {<<>>} THEN <<>> ELSE max]]

(* variant: the failure is printed and the run goes on                      *)
check_fetched_no_exit(fetched) == "proceed"

(* variant: an empty item list is merged like any other                     *)
check_fetched_accepts_empty(fetched) ==
    IF fetched.error_msg # "None" THEN "fetch_failed" ELSE "proceed"

(* main, lines 156-162: exit(1) on a fetch error and on an empty item list  *)
check_fetched(fetched) ==
    IF fetched.error_msg # "None" THEN "fetch_failed"
    ELSE IF fetched.items = <<>> THEN "no_data"
    ELSE "proceed"

(* main, lines 168-176: day replacement, retention trim, sort and save      *)
merge_and_save(doc, existing_data, new_records, today, clock, wr) ==
    LET filtered_existing == remove_today(existing_data, today)
        all_data == cleanup_old_data(filtered_existing \o new_records, clock, DAYS_TO_KEEP)
        written == save_data(doc, all_data, wr)
    IN  [ok |-> written.ok, file |-> written.file,
         removed_count |-> Len(filtered_existing) + Len(new_records) - Len(all_data)]

(* one run of main(): the document it leaves, its exit code, the calls it   *)
(* made and what it was given                                               *)
main(doc, clock, force_update, resp, wr) ==
    LET today == strftime(DateOf(clock))
        existing_data == load_existing_data(doc)
        existed == data_exists_for_date(existing_data, today)
        fetched == fetch_api_data(resp)
        new_records == prepare_records(fetched.items, today, clock)
        merged == merge_and_save(doc, existing_data, new_records, today, clock, wr)
        run == [file |-> doc, outcome |-> "skipped", exit |-> 0,
                fetched |-> FALSE, saved |-> FALSE, resp |-> NotRequested,
                new_records |-> <<>>, removed_count |-> 0,
                force_update |-> force_update, existed |-> existed,
                today |-> today, clock |-> clock, summary |-> NoSummary]
    IN  IF ~force_update /\ existed
        THEN IF get_data_summary(existing_data).raised
             THEN [run EXCEPT !.outcome = "raised", !.exit = 1,
                              !.summary = get_data_summary(existing_data)]
             ELSE [run EXCEPT !.summary = get_data_summary(existing_data)]
        ELSE IF check_fetched(fetched) # "proceed"
        THEN [run EXCEPT !.outcome = check_fetched(fetched), !.exit = 1,
                         !.fetched = TRUE, !.resp = resp]
        ELSE IF prepare_raises(fetched.items)
        THEN [run EXCEPT !.outcome = "raised", !.exit = 1,
                         !.fetched = TRUE, !.resp = resp]
        ELSE [run EXCEPT !.file = merged.file,
                         !.outcome = IF merged.ok THEN "complete" ELSE "save_failed",
                         !.exit = IF merged.ok THEN 0 ELSE 1,
                         !.fetched = TRUE, !.saved = TRUE, !.resp = resp,
                         !.new_records = new_records,
                         !.removed_count = merged.removed_count,
                         !.summary = IF merged.ok
                                     THEN get_data_summary(load_existing_data(merged.file))
                                     ELSE NoSummary]

-----------------------------------------------------------------------------
(* app.py                                                                  *)

None == <<>>            \* Python None; a value v that is present is <<v>>
Some(v) == <<v>>

NA == "NA"              \* pd.NA / NaN: the missing marker of a DataFrame cell

(* the item the remote API serves while its data is at version v           *)
SourceItem(v) ==
    [index_code |-> "SH000300", name |-> <<97>>, pe |-> v, pb |-> v,
     pe_percentile |-> v, pb_percentile |-> v, roe |-> v, yeild |-> v]

(* the outcome of requests.get + raise_for_status + resp.json(), should the *)
(* request be made while the remote data is at version v                    *)
AppResponses(v) ==
    { [status |-> "transport_error", body |-> <<>>],
      [status |-> "http_error", body |-> <<>>],
      [status |-> "ok", body |-> [data |-> [total |-> 0]]],
      [status |-> "ok", body |-> [data |-> [items |-> <<>>]]],
      [status |-> "ok", body |-> [data |-> [items |-> <<SourceItem(v)>>]]] }

SelectedColumns ==
    {"name", "index_code", "pe_percentile", "pb_percentile", "roe",
     "dividend_yield", "PE", "PB"}

(* pd.json_normalize(items) and the column fixes; raised is the KeyError of *)
(* a column that is not there                                               *)
normalize_frame(items) ==
    LET cols0 == UNION {DOMAIN items[i] : i \in 1..Len(items)}
        rename == "yeild" \in cols0 /\ "dividend_yield" \notin cols0
        cols1 == IF rename THEN (cols0 \ {"yeild"}) \cup {"dividend_yield"} ELSE cols0
        cols2 == cols1 \cup {"dividend_yield"}
        cell(i, c) ==
            IF c = "PE" THEN Get(items[i], "pe", NA)
            ELSE IF c = "PB" THEN Get(items[i], "pb", NA)
            ELSE IF c = "dividend_yield" /\ rename THEN Get(items[i], "yeild", NA)
            ELSE Get(items[i], c, NA)
    IN  IF {"pe", "pb"} \subseteq cols2 /\ (SelectedColumns \ {"PE", "PB"}) \subseteq cols2
        THEN [raised |-> FALSE,
              df |-> [i \in 1..Len(items) |-> [c \in SelectedColumns |-> cell(i, c)]]]
        ELSE [raised |-> TRUE, df |-> None]

(* @st.cache_data: a stored result is returned without running the body;    *)
(* an exception stores nothing                                              *)
fetch_api_data_once(store, resp) ==
    IF store # None
    THEN [raised |-> FALSE, df |-> store[1], store |-> store, requested |-> FALSE]
    ELSE IF resp.status # "ok"
              \/ ~Has(resp.body, "data") \/ ~Has(resp.body.data, "items")
    THEN [raised |-> TRUE, df |-> None, store |-> store, requested |-> TRUE]
    ELSE LET f == normalize_frame(resp.body.data.items)
         IN  IF f.raised
             THEN [raised |-> TRUE, df |-> None, store |-> store, requested |-> TRUE]
             ELSE [raised |-> FALSE, df |-> f.df, store |-> Some(f.df),
                   requested |-> TRUE]

Boundary(clock) == DateOf(clock) * SecondsPerDay + REFRESH_HOUR * 60 * 60

(* variant: after the boundary every call rebuilds                          *)
need_refresh_after_boundary(last_at, clock) ==
    LET tgt == Boundary(clock)
    IN  \/ last_at = None
        \/ clock >= tgt
        \/ DateOf(last_at[1]) < DateOf(clock)

(* variant: a call at the boundary itself does not count as past it         *)
need_refresh_strictly_after(last_at, clock) ==
    LET tgt == Boundary(clock)
    IN  \/ last_at = None
        \/ (clock > tgt /\ tgt > last_at[1])
        \/ DateOf(last_at[1]) < DateOf(clock)

(* variant: only the boundary makes a cache stale, not the change of date    *)
need_refresh_boundary_only(last_at, clock) ==
    LET tgt == Boundary(clock)
    IN  \/ last_at = None
        \/ (clock >= tgt /\ tgt > last_at[1])

(* variant: a session without a timestamp is not taken for stale            *)
need_refresh_unless_first(last_at, clock) ==
    LET tgt == Boundary(clock)
    IN  /\ last_at # None
        /\ \/ (clock >= tgt /\ tgt > last_at[1])
           \/ DateOf(last_at[1]) < DateOf(clock)

need_refresh(last_at, clock) ==
    LET tgt == Boundary(clock)
    IN  \/ last_at = None
        \/ (clock >= tgt /\ tgt > last_at[1])
        \/ DateOf(last_at[1]) < DateOf(clock)

(* variant: the timestamp is written before the fetch is known to succeed   *)
app_fetch_stamps_first(session, store, clock, resp, done) ==
    LET stale == need_refresh(session.last_fetch_at, clock)
        r == fetch_api_data_once(store, resp)
    IN  IF stale /\ r.raised
        THEN [session |-> [session EXCEPT !.last_fetch_at = Some(done)],
              store |-> r.store, stale |-> TRUE,
              requested |-> r.requested, raised |-> TRUE, ret |-> None]
        ELSE IF stale
        THEN [session |-> [cached_df |-> Some(r.df), last_fetch_at |-> Some(done)],
              store |-> r.store, stale |-> TRUE,
              requested |-> r.requested, raised |-> FALSE, ret |-> Some(r.df)]
        ELSE [session |-> session, store |-> store, stale |-> FALSE,
              requested |-> FALSE,
              raised |-> (session.cached_df = None), ret |-> session.cached_df]

(* fetch_api_data of app.py, called at `clock`; `done` is datetime.now() at *)
(* line 70, after _fetch_api_data_once has returned                         *)
app_fetch_api_data(session, store, clock, resp, done) ==
    LET stale == need_refresh(session.last_fetch_at, clock)
        r == fetch_api_data_once(store, resp)
    IN  IF stale /\ r.raised
        THEN [session |-> session, store |-> r.store, stale |-> TRUE,
              requested |-> r.requested, raised |-> TRUE, ret |-> None]
        ELSE IF stale
        THEN [session |-> [cached_df |-> Some(r.df), last_fetch_at |-> Some(done)],
              store |-> r.store, stale |-> TRUE,
              requested |-> r.requested, raised |-> FALSE, ret |-> Some(r.df)]
        ELSE [session |-> session, store |-> store, stale |-> FALSE,
              requested |-> FALSE,
              raised |-> (session.cached_df = None), ret |-> session.cached_df]

-----------------------------------------------------------------------------
(* The batch collector: one run of main() per step, the clock in between.  *)

Snapshot(items, day) ==
    prepare_records(items, strftime(day), day * SecondsPerDay + 9 * 60 * 60)

(* documents the collector may find: none, an unreadable one, and stores   *)
(* of earlier runs, sorted as save_data leaves them                        *)
InitDocs ==
    { Absent, Corrupt, Json(<<>>),
      Json(sort_reverse(Snapshot(<<ItemA1, ItemB1>>, StartDay - DAYS_TO_KEEP)
                        \o Snapshot(<<ItemA1>>, StartDay - DAYS_TO_KEEP - 1))),
      Json(sort_reverse(Snapshot(<<ItemA1, ItemB1>>, StartDay)
                        \o Snapshot(<<ItemB1>>, StartDay - 1))),
      Json(sort_reverse(Snapshot(<<ItemB1>>, StartDay - DAYS_TO_KEEP + 1)
                        \o <<ItemA1>>)),
      Unreadable(sort_reverse(Snapshot(<<ItemA1, ItemB1>>, StartDay - 1))) }

NoRun ==
    [outcome |-> "none", exit |-> 0, fetched |-> FALSE, saved |-> FALSE,
     resp |-> NotRequested, new_records |-> <<>>, removed_count |-> 0,
     force_update |-> FALSE, existed |-> FALSE, today |-> <<>>, clock |-> 0]

NoCall ==
    [made |-> FALSE, stale |-> FALSE, requested |-> FALSE, raised |-> FALSE,
     ret |-> None]

NoGate == [attempted |-> None, rebuilt |-> None]

PageIdle ==
    /\ cached_df = None
    /\ last_fetch_at = None
    /\ memo = None
    /\ source = 1
    /\ call = NoCall
    /\ gate = NoGate

Init ==
    /\ now = StartDay * SecondsPerDay + 9 * 60 * 60
    /\ file \in InitDocs
    /\ last = NoRun
    /\ PageIdle
    /\ summary = NoSummary

(* the inputs a run reads: the API is asked only when the run does not skip, *)
(* the file is written only when items were fetched                          *)
Asked(doc, clock, force_update) ==
    force_update \/ ~data_exists_for_date(load_existing_data(doc), strftime(DateOf(clock)))

Writes(resp) ==
    /\ check_fetched(fetch_api_data(resp)) = "proceed"
    /\ ~prepare_raises(fetch_api_data(resp).items)

Run ==
    \E force_update \in BOOLEAN :
    \E resp \in IF Asked(file, now, force_update) THEN ApiResponses ELSE {NotRequested} :
    \E wr \in IF Asked(file, now, force_update) /\ Writes(resp)
              THEN WriteOutcomes ELSE {"ok"} :
    \E r \in {main(file, now, force_update, resp, wr)} :
            /\ file' = r.file
            /\ last' = [k \in DOMAIN NoRun |-> r[k]]
            /\ summary' = r.summary
            /\ UNCHANGED <<now, cached_df, last_fetch_at, memo, source, call, gate>>

(* the summary of the store as it is read from the document                 *)
Summarize ==
    /\ summary' = get_data_summary(load_existing_data(file))
    /\ UNCHANGED <<now, file, last, cached_df, last_fetch_at, memo, source, call, gate>>

DayPasses ==
    /\ DateOf(now) < StartDay + MaxDays
    /\ now' = now + SecondsPerDay
    /\ UNCHANGED <<file, last, cached_df, last_fetch_at, memo, source, call, gate, summary>>

Next == Run \/ DayPasses \/ Summarize

Spec == Init /\ [][Next]_vars

-----------------------------------------------------------------------------
(* The page: one call of fetch_api_data per script run, the clock, the     *)
(* remote data and the st.cache_data store in between.                     *)

TimesOfDay ==
    LET b == REFRESH_HOUR * 60 * 60
    IN  {b - 3600, b - 1800, b - 5, b, b + 1800, b + 2700}

AppInstants ==
    {d * SecondsPerDay + s : d \in StartDay..(StartDay + MaxAppDays), s \in TimesOfDay}

InitApp ==
    /\ now = StartDay * SecondsPerDay + REFRESH_HOUR * 60 * 60 - 3600
    /\ file = Absent
    /\ last = NoRun
    /\ PageIdle
    /\ summary = NoSummary

(* a boundary-crossing rebuild: the cache was built earlier on the day of   *)
(* the call, before the boundary, and the call comes at or after it         *)
Crossing(last_at, clock) ==
    /\ last_at # None
    /\ DateOf(last_at[1]) = DateOf(clock)
    /\ last_at[1] < Boundary(clock)
    /\ clock >= Boundary(clock)

GetPage ==
    \E resp \in AppResponses(source), done \in AppInstants :
        \E r \in {app_fetch_api_data(
                     [cached_df |-> cached_df, last_fetch_at |-> last_fetch_at],
                     memo, now, resp, done)} :
            /\ done >= now
            /\ done <= now + FETCH_TIMEOUT
            /\ r.requested \/ done = now
            /\ cached_df' = r.session.cached_df
            /\ last_fetch_at' = r.session.last_fetch_at
            /\ memo' = r.store
            /\ now' = done
            /\ call' = [made |-> TRUE, stale |-> r.stale, requested |-> r.requested,
                        raised |-> r.raised, ret |-> r.ret]
            /\ gate' = [attempted |-> IF r.stale /\ Crossing(last_fetch_at, now)
                                      THEN Some(DateOf(now)) ELSE gate.attempted,
                        rebuilt |-> IF r.stale /\ ~r.raised /\ Crossing(last_fetch_at, now)
                                    THEN Some(DateOf(now)) ELSE gate.rebuilt]
            /\ UNCHANGED <<file, last, source, summary>>

Tick ==
    /\ \E t \in AppInstants : t > now /\ now' = t
    /\ call' = NoCall
    /\ UNCHANGED <<file, last, cached_df, last_fetch_at, memo, source, gate, summary>>

SourceUpdate ==
    /\ source < MaxVersion
    /\ source' = source + 1
    /\ call' = NoCall
    /\ UNCHANGED <<now, file, last, cached_df, last_fetch_at, memo, gate, summary>>

(* the store of st.cache_data is emptied: "Clear cache" of the page menu,   *)
(* or a change of the cached function's source                              *)
ClearCache ==
    /\ memo # None
    /\ memo' = None
    /\ call' = NoCall
    /\ UNCHANGED <<now, file, last, cached_df, last_fetch_at, source, gate, summary>>

NextApp == GetPage \/ Tick \/ SourceUpdate \/ ClearCache

SpecApp == InitApp /\ [][NextApp]_vars

-----------------------------------------------------------------------------
(* Claims about the batch collector (checked under Spec).                  *)

Records == load_existing_data(file)

Count(seq, x) == Cardinality({i \in 1..Len(seq) : seq[i] = x})

SameRecords(a, b) ==
    /\ Len(a) = Len(b)
    /\ \A i \in 1..Len(a) : Count(a, a[i]) = Count(b, a[i])

FiledUnder(data, date) ==
    LET on(item) == Has(item, "fetch_date") /\ item.fetch_date = date
    IN  SelectSeq(data, on)

(* the day a date string names: the inverse of strftime                     *)
DayNamed(date) == CHOOSE d \in Days : FormatDate(d) = date

(* no two records agree on index_code and fetch_date (a key that is absent  *)
(* reads as Python's None, which equals itself)                             *)
UniqueKeys(data) ==
    \A i, j \in 1..Len(data) :
        i # j => ~(/\ Get(data[i], "index_code", "None") = Get(data[j], "index_code", "None")
                   /\ Get(data[i], "fetch_date", <<>>) = Get(data[j], "fetch_date", <<>>))

(* valid new records: each carries an index_code, and no two the same one   *)
ValidSnapshot(records) ==
    /\ \A i \in 1..Len(records) : Has(records[i], "index_code")
    /\ \A i, j \in 1..Len(records) :
           i # j => records[i].index_code # records[j].index_code

(* C1: a run that completes on valid inputs (a store without duplicate      *)
(* keys, new records naming each index once) leaves a store that load       *)
(* returns without two records of the same (index_code, fetch_date);        *)
(* so it is after any sequence of such runs, forced or not.                 *)
C1_UniquePerIndexAndDay ==
    [][(/\ last'.outcome = "complete"
        /\ ValidSnapshot(last'.new_records)
        /\ UniqueKeys(Records))
          => UniqueKeys(load_existing_data(file'))]_vars

C1_Witness ==
    /\ last.outcome = "complete"
    /\ last.force_update /\ last.existed
    /\ ValidSnapshot(last.new_records)
    /\ UniqueKeys(Records)
    /\ \E i \in 1..Len(Records) : Records[i].fetch_date # last.today

(* C2: merging the same new records for the same date a second time leaves  *)
(* the persisted store exactly as the first merge left it.                  *)
C2_MergeIdempotent ==
    last.outcome = "complete" =>
        merge_and_save(file, Records, last.new_records, last.today, last.clock, "ok").file
            = file

C2_Witness ==
    /\ last.outcome = "complete"
    /\ last.existed
    /\ Len(Records) > Len(last.new_records)
    /\ Len(last.new_records) >= 2

(* C3: after a completed run every stored record carries a fetch_date, and  *)
(* none is dated earlier than the run's day minus 90 days.                  *)
C3_Retention ==
    last.outcome = "complete" =>
        \A i \in 1..Len(Records) :
            /\ Has(Records[i], "fetch_date")
            /\ DayNamed(Records[i].fetch_date) >= DateOf(last.clock) - DAYS_TO_KEEP

C3_Witness ==
    /\ last.outcome = "complete"
    /\ last.removed_count > 0
    /\ \E i \in 1..Len(Records) :
           DayNamed(Records[i].fetch_date) = DateOf(last.clock) - DAYS_TO_KEEP

(* C8: a run whose write fails leaves the durable document as it was.       *)
C8_WriteFailureIsolation ==
    [][last'.outcome = "save_failed" =>
          load_existing_data(file') = load_existing_data(file)]_vars

SourceFailed(resp) ==
    \/ resp.status \in {"transport_error", "http_error"}
    \/ resp.status = "ok" /\ (~Has(resp.body, "data") \/ ~Has(resp.body.data, "items"))

(* C9: a run whose fetch fails exits non-zero without calling save, and the *)
(* durable document is what it was before the run.                          *)
C9_FetchFailureAtomic ==
    [][SourceFailed(last'.resp) =>
          (last'.exit = 1 /\ ~last'.saved /\ file' = file)]_vars

C9_Witness ==
    /\ SourceFailed(last.resp)
    /\ last.force_update
    /\ last.existed
    /\ Len(Records) > 0

(* C10: without force, a run that finds records of today neither fetches    *)
(* nor writes; with force the run fetches, and when it completes the        *)
(* records filed under today are exactly the newly collected ones.          *)
C10_DailySkip ==
    [][(last' # last \/ file' # file) =>
          /\ (~last'.force_update /\ FiledUnder(Records, FormatDate(DateOf(now))) # <<>>)
                => (/\ last'.outcome = "skipped"
                    /\ ~last'.fetched /\ ~last'.saved
                    /\ file' = file)
          /\ last'.force_update => last'.fetched
          /\ (last'.force_update /\ last'.outcome = "complete")
                => SameRecords(FiledUnder(load_existing_data(file'), last'.today),
                               last'.new_records)]_vars

C10_Witness ==
    /\ last.outcome = "complete"
    /\ last.force_update
    /\ last.existed
    /\ FiledUnder(Records, last.today) # <<>>

-----------------------------------------------------------------------------
(* Claims about the page's cache (checked under SpecApp).  A step with      *)
(* call'.made is one call of fetch_api_data, made at the time `now`.        *)

(* the cache was built on the day of `clock`, before that day's boundary    *)
BuiltBeforeBoundary(clock) ==
    /\ last_fetch_at # None
    /\ DateOf(last_fetch_at[1]) = DateOf(clock)
    /\ last_fetch_at[1] < Boundary(clock)

Reused ==
    /\ ~call'.stale
    /\ ~call'.requested
    /\ call'.ret = cached_df
    /\ cached_df' = cached_df
    /\ last_fetch_at' = last_fetch_at

(* C4 as stated: before the boundary the cache is reused; the first call at *)
(* or after the boundary rebuilds; no later call of that day rebuilds.      *)
C4_GatingAsStated ==
    [][call'.made =>
          /\ (BuiltBeforeBoundary(now) /\ now < Boundary(now)) => Reused
          /\ (BuiltBeforeBoundary(now) /\ now >= Boundary(now)) => call'.stale
          /\ gate.attempted = Some(DateOf(now)) => ~call'.stale]_vars

(* C4 as amended: before the boundary the cache is reused; a call at or     *)
(* after the boundary rebuilds; once such a rebuild has succeeded, no later *)
(* call of that day rebuilds.                                               *)
C4_Gating ==
    [][call'.made =>
          /\ (BuiltBeforeBoundary(now) /\ now < Boundary(now)) => Reused
          /\ (BuiltBeforeBoundary(now) /\ now >= Boundary(now)) => call'.stale
          /\ gate.rebuilt = Some(DateOf(now)) => Reused]_vars

C4_Witness ==
    /\ call.made
    /\ ~call.stale
    /\ gate.rebuilt = Some(DateOf(now))
    /\ call.ret = cached_df
    /\ cached_df # None

(* the staleness rule in the words of the specification                     *)
StaleByRule(clock) ==
    \/ cached_df = None
    \/ DateOf(last_fetch_at[1]) < DateOf(clock)
    \/ (last_fetch_at[1] < Boundary(clock) /\ Boundary(clock) <= clock)

(* C5: a call rebuilds exactly when the rule says the cache is stale, and   *)
(* reuses the cache, asking nothing of the source, in every other case.     *)
C5_FreshnessRule ==
    [][call'.made =>
          /\ call'.stale <=> StaleByRule(now)
          /\ ~StaleByRule(now) => Reused]_vars

C5_Witness ==
    /\ call.made
    /\ ~call.stale
    /\ now >= Boundary(now)
    /\ DateOf(last_fetch_at[1]) = DateOf(now)
    /\ memo = None

(* C6: a rebuild that fails leaves cached_df and last_fetch_at as they were. *)
C6_FailedRebuildKeepsCache ==
    [][(call'.made /\ call'.stale /\ call'.raised /\ cached_df # None) =>
          (cached_df' = cached_df /\ last_fetch_at' = last_fetch_at)]_vars

C6_Witness ==
    /\ call.made /\ call.stale /\ call.raised
    /\ cached_df # None
    /\ last_fetch_at # None

(* C7: a call whose rebuild fails while a cache exists returns that cache.  *)
C7_StaleCacheServed ==
    (call.made /\ call.stale /\ call.raised /\ cached_df # None) =>
        (~(call.ret = None) /\ call.ret = cached_df)

(* C11 as stated: after the boundary-crossing rebuild of day D no call made *)
(* before the boundary of day D+1 rebuilds.                                 *)
C11_FreshUntilNextBoundary ==
    [][(/\ call'.made
        /\ gate.rebuilt # None
        /\ now < (gate.rebuilt[1] + 1) * SecondsPerDay + REFRESH_HOUR * 60 * 60)
          => ~call'.stale]_vars

(* C11 as amended: after the boundary-crossing rebuild of day D no later    *)
(* call of day D rebuilds, and the first call after midnight rebuilds,      *)
(* whatever the time of day, because the cache is dated the day before.     *)
C11_FreshUntilMidnight ==
    [][(call'.made /\ gate.rebuilt # None) =>
          /\ DateOf(now) = gate.rebuilt[1] => Reused
          /\ (/\ DateOf(now) = gate.rebuilt[1] + 1
              /\ DateOf(last_fetch_at[1]) = gate.rebuilt[1])
                => (call'.stale /\ (~call'.raised => last_fetch_at'[1] >= now))]_vars

C11_Witness ==
    /\ call.made /\ call.stale /\ ~call.raised
    /\ gate.rebuilt = Some(DateOf(now) - 1)
    /\ now < Boundary(now)
    /\ DateOf(last_fetch_at[1]) = DateOf(now)

(* the frame a fetch made now would give                                    *)
FrameOfSource == normalize_frame(<<SourceItem(source)>>).df

(* C12: every rebuild of a stale cache asks the source, and the snapshot    *)
(* stored and returned is the source's data at the time of the rebuild.     *)
C12_RebuildFetchesSource ==
    [][(call'.made /\ call'.stale /\ ~call'.raised) =>
          /\ call'.requested
          /\ cached_df' = Some(FrameOfSource)
          /\ call'.ret = Some(FrameOfSource)]_vars

-----------------------------------------------------------------------------
(* Further claims about the batch collector (checked under Spec).          *)

(* C13: after every successful save the stored records are in order of      *)
(* fetch_date descending and, within one fetch_date, of name ascending.     *)
C13_PersistedOrdering ==
    last.outcome = "complete" =>
        \A i, j \in 1..Len(Records) :
            i < j =>
                /\ ~StrLess(Get(Records[i], "fetch_date", <<>>),
                            Get(Records[j], "fetch_date", <<>>))
                /\ Get(Records[i], "fetch_date", <<>>) = Get(Records[j], "fetch_date", <<>>)
                      => ~StrLess(Get(Records[j], "name", <<>>),
                                  Get(Records[i], "name", <<>>))

(* the items of a response that are mappings carrying an index_code         *)
WellFormed(items) ==
    LET good(item) == IsDict(item) /\ Has(item, "index_code")
    IN  SelectSeq(items, good)

(* C14: a batch with malformed items is not aborted: the run goes on to     *)
(* merge exactly one record per well-formed item, each with its index_code. *)
C14_MalformedItemsDropped ==
    [][check_fetched(fetch_api_data(last'.resp)) = "proceed" =>
          /\ last'.outcome # "raised"
          /\ last'.saved
          /\ Len(last'.new_records) = Len(WellFormed(last'.resp.body.data.items))
          /\ \A i \in 1..Len(last'.new_records) :
                 Has(last'.new_records[i], "index_code")]_vars

(* C15: the record made of an item with yeild and no dividend_yield holds   *)
(* that value under dividend_yield and has no yeild; the record made of an  *)
(* item with neither key has dividend_yield set to the missing marker.      *)
C15_YieldRenaming ==
    last.saved =>
        \A i \in 1..Len(last.new_records) :
            LET item == last.resp.body.data.items[i]
                record == last.new_records[i]
            IN  /\ (Has(item, "yeild") /\ ~Has(item, "dividend_yield"))
                      => (/\ Has(record, "dividend_yield")
                          /\ record.dividend_yield = item.yeild
                          /\ ~Has(record, "yeild"))
                /\ (~Has(item, "yeild") /\ ~Has(item, "dividend_yield"))
                      => (/\ Has(record, "dividend_yield")
                          /\ record.dividend_yield = None)

(* C16: the summary of an empty store is returned without error, holds the  *)
(* three counts (records, days, indices), all zero, and no dates.           *)
C16_EmptySummary ==
    summary.given = <<<<>>>> =>
        /\ ~summary.raised
        /\ Has(summary.value, "total_records") /\ summary.value.total_records = 0
        /\ Has(summary.value, "total_days") /\ summary.value.total_days = 0
        /\ Has(summary.value, "total_indices") /\ summary.value.total_indices = 0
        /\ Get(summary.value, "earliest_date", <<>>) = <<>>
        /\ Get(summary.value, "latest_date", <<>>) = <<>>

(* the records a document holds, whether or not it can be read              *)
Held(doc) == IF Has(doc, "data") THEN doc.data ELSE <<>>

(* C17: a run that completes keeps every record the document held before    *)
(* it that is dated neither today nor before the cutoff, whatever state the *)
(* document was in, an unreadable one included.                             *)
C17_HistoryPreserved ==
    [][last'.outcome = "complete" =>
          \A i \in 1..Len(Held(file)) :
              (/\ Has(Held(file)[i], "fetch_date")
               /\ Held(file)[i].fetch_date # last'.today
               /\ StrGeq(Held(file)[i].fetch_date,
                         strftime(DateOf(last'.clock) - DAYS_TO_KEEP)))
                => Count(Held(file'), Held(file)[i]) >= Count(Held(file), Held(file)[i])]_vars

(* the fetch succeeded and the response lists no item                       *)
EmptyItems(resp) ==
    /\ resp.status = "ok"
    /\ Has(resp.body, "data") /\ Has(resp.body.data, "items")
    /\ resp.body.data.items = <<>>

(* C19: a run whose fetch succeeds with an empty item list exits non-zero   *)
(* before merge and save; the document, with any records of today, is what  *)
(* it was, also when the run was forced.                                    *)
C19_EmptyResponseFails ==
    [][EmptyItems(last'.resp) =>
          /\ last'.outcome = "no_data"
          /\ last'.exit = 1
          /\ ~last'.saved
          /\ last'.new_records = <<>>
          /\ file' = file]_vars

C19_Witness ==
    /\ EmptyItems(last.resp)
    /\ last.outcome = "no_data"
    /\ last.force_update
    /\ last.existed
    /\ FiledUnder(Records, last.today) # <<>>

-----------------------------------------------------------------------------
(* Further claims about the page's cache (checked under SpecApp).          *)

(* C18: last_fetch_at is set only if cached_df is set (no step leads from a *)
(* state where that is so to one where it is not, and it is so at the       *)
(* start); the two are written only by a call whose fetch succeeded, and    *)
(* then both; a call that finds the cache fresh has a cached snapshot to    *)
(* return.                                                                  *)
C18_CachePairing ==
    [][/\ (last_fetch_at = None \/ cached_df # None)
               => (last_fetch_at' = None \/ cached_df' # None)
       /\ (cached_df' # cached_df \/ last_fetch_at' # last_fetch_at)
               => (/\ call'.made /\ call'.stale /\ ~call'.raised
                   /\ cached_df' # None
                   /\ last_fetch_at' # None /\ last_fetch_at'[1] >= now)
       /\ (call'.made /\ call'.stale /\ ~call'.raised)
               => (cached_df' = call'.ret /\ last_fetch_at' # None)
       /\ (call'.made /\ ~call'.stale)
               => (~call'.raised /\ cached_df # None /\ call'.ret = cached_df)]_vars

C18_Witness ==
    /\ call.made /\ ~call.stale /\ ~call.raised
    /\ last_fetch_at # None
    /\ cached_df # None
    /\ call.ret = cached_df
    /\ gate.attempted = None

====
